---------------------------- MODULE Spec2Model ----------------------------
(***************************************************************************)
(* Credit application form (CreditApplicationForm): the zod validation     *)
(* schema and the submission controller built on react-hook-form.          *)
(*                                                                         *)
(* Strings are sequences of one-character strings, so that trim,           *)
(* toUpperCase, the length checks and the regular expressions are computed *)
(* character by character.                                                 *)
(***************************************************************************)
EXTENDS Integers, Sequences, FiniteSets, TLC

(***************************************************************************)
(* Characters                                                              *)
(***************************************************************************)
LowerSeq ==
  << "a","b","c","d","e","f","g","h","i","j","k","l","m",
     "n","o","p","q","r","s","t","u","v","w","x","y","z" >>

UpperSeq ==
  << "A","B","C","D","E","F","G","H","I","J","K","L","M",
     "N","O","P","Q","R","S","T","U","V","W","X","Y","Z" >>

DigitSeq == << "0","1","2","3","4","5","6","7","8","9" >>

Range(s) == { s[i] : i \in DOMAIN s }

Lower == Range(LowerSeq)
Upper == Range(UpperSeq)
Digit == Range(DigitSeq)
Letter == Lower \cup Upper

\* \s of the regular expressions, and what String.prototype.trim strips
WhiteSpace == { " ", "\t" }

\* String.prototype.toUpperCase on one character
UpperOfChar(c) ==
  IF c \in Lower
    THEN UpperSeq[CHOOSE i \in DOMAIN LowerSeq : LowerSeq[i] = c]
    ELSE c

\* String.prototype.toUpperCase
ToUpperCase(s) == [ i \in DOMAIN s |-> UpperOfChar(s[i]) ]

HasLowercase(s) == \E i \in DOMAIN s : s[i] \in Lower

\* String.prototype.trim (zod's .trim())
RECURSIVE TrimStart(_)
TrimStart(s) ==
  IF s # << >> /\ Head(s) \in WhiteSpace THEN TrimStart(Tail(s)) ELSE s

RECURSIVE TrimEnd(_)
TrimEnd(s) ==
  IF s # << >> /\ s[Len(s)] \in WhiteSpace
    THEN TrimEnd(SubSeq(s, 1, Len(s) - 1))
    ELSE s

Trim(s) == TrimEnd(TrimStart(s))

\* a string of n copies of c
Repeat(c, n) == [ i \in 1..n |-> c ]

AllIn(s, class) == \A i \in DOMAIN s : s[i] \in class

(***************************************************************************)
(* Number(value), as z.coerce.number() applies it to the amount.  The      *)
(* amount is undefined (the default value) or the string the number input  *)
(* holds: the record [defined, text].  A number is the record              *)
(* [nan, num, scale]: it stands for num / 10^scale.  Recognised: optional  *)
(* sign, digits, optional fraction; any other non-empty text is NaN.       *)
(***************************************************************************)
Undefined == [ defined |-> FALSE, text |-> << >> ]

Text(s) == [ defined |-> TRUE, text |-> s ]

NaN == [ nan |-> TRUE, num |-> 0, scale |-> 0 ]

DigitValue(c) == (CHOOSE i \in DOMAIN DigitSeq : DigitSeq[i] = c) - 1

RECURSIVE DigitsValue(_)
DigitsValue(s) ==
  IF s = << >> THEN 0
  ELSE 10 * DigitsValue(SubSeq(s, 1, Len(s) - 1)) + DigitValue(s[Len(s)])

\* position of the first "." of s, or 0
DotAt(s) ==
  IF \E i \in DOMAIN s : s[i] = "."
    THEN CHOOSE i \in DOMAIN s : s[i] = "." /\ \A j \in 1..(i - 1) : s[j] # "."
    ELSE 0

\* an unsigned decimal literal: digits, or digits "." digits, or "." digits
UnsignedNumber(s) ==
  LET d    == DotAt(s)
      int  == IF d = 0 THEN s ELSE SubSeq(s, 1, d - 1)
      frac == IF d = 0 THEN << >> ELSE SubSeq(s, d + 1, Len(s))
  IN  IF /\ AllIn(int, Digit)
         /\ AllIn(frac, Digit)
         /\ Len(int) + Len(frac) > 0
        THEN [ nan |-> FALSE, num |-> DigitsValue(int \o frac), scale |-> Len(frac) ]
        ELSE NaN

NumberOfString(s) ==
  LET t == Trim(s)
  IN  IF t = << >> THEN [ nan |-> FALSE, num |-> 0, scale |-> 0 ]
      ELSE IF Head(t) = "-"
        THEN LET u == UnsignedNumber(Tail(t))
             IN  IF u.nan THEN NaN ELSE [ u EXCEPT !.num = 0 - u.num ]
      ELSE IF Head(t) = "+" THEN UnsignedNumber(Tail(t))
      ELSE UnsignedNumber(t)

\* z.coerce.number(): Number(input)
CoerceNumber(v) == IF ~v.defined THEN NaN ELSE NumberOfString(v.text)

RECURSIVE Pow10(_)
Pow10(k) == IF k = 0 THEN 1 ELSE 10 * Pow10(k - 1)

(***************************************************************************)
(* formSchema: each field's issues, the set of the checks it violates.     *)
(***************************************************************************)
AmountMax == 10000000
NameMin == 2
NameMax == 100
TaxidMin == 5
TaxidMax == 20
NationalityMin == 1
EmailMax == 255

\* .positive(): value > 0
IsPositive(n) == n.num > 0

\* the bound taken as exclusive
WithinMaxStrict(n) == n.num < AmountMax * Pow10(n.scale)

\* .max(10000000): value <= 10000000
WithinMax(n) == n.num <= AmountMax * Pow10(n.scale)

AmountIssues(v) ==
  LET n == CoerceNumber(v)
  IN  IF n.nan THEN { "invalid_type" }
      ELSE (IF IsPositive(n) THEN {} ELSE { "too_small" })
           \cup (IF WithinMax(n) THEN {} ELSE { "too_big" })

\* /^[a-zA-Z\s'-]+$/
NameChars == Letter \cup WhiteSpace \cup { "'", "-" }

NameRegex(s) == s # << >> /\ AllIn(s, NameChars)

NameIssues(v) ==
  LET s == Trim(v)
  IN  (IF Len(s) >= NameMin THEN {} ELSE { "too_small" })
      \cup (IF Len(s) <= NameMax THEN {} ELSE { "too_big" })
      \cup (IF NameRegex(s) THEN {} ELSE { "invalid_string" })

\* /^[A-Z0-9]+$/i
TaxidRegex(s) == s # << >> /\ AllIn(s, Letter \cup Digit)

TaxidIssues(v) ==
  LET s == Trim(v)
  IN  (IF Len(s) >= TaxidMin THEN {} ELSE { "too_small" })
      \cup (IF Len(s) <= TaxidMax THEN {} ELSE { "too_big" })
      \cup (IF TaxidRegex(s) THEN {} ELSE { "invalid_string" })

NationalityIssues(v) ==
  IF Len(v) >= NationalityMin THEN {} ELSE { "too_small" }

(***************************************************************************)
(* .email(): zod's address pattern.  The local part is characters of      *)
(* A-Z 0-9 _ ' + - . ending in one of A-Z 0-9 _ + -, the domain is one or  *)
(* more labels (A-Z 0-9, then A-Z 0-9 -) each followed by ".", then two or *)
(* more letters; the address does not start with "." and holds no "..";    *)
(* letters match in either case.                                           *)
(***************************************************************************)
AlphaNum == Letter \cup Digit

\* position of the first c of s at or after position from, or 0
IndexFrom(s, c, from) ==
  IF \E i \in from..Len(s) : s[i] = c
    THEN CHOOSE i \in from..Len(s) :
           s[i] = c /\ \A j \in from..(i - 1) : s[j] # c
    ELSE 0

\* s split at every "."
RECURSIVE SplitDots(_)
SplitDots(s) ==
  LET d == IndexFrom(s, ".", 1)
  IN  IF d = 0 THEN << s >>
      ELSE << SubSeq(s, 1, d - 1) >> \o SplitDots(SubSeq(s, d + 1, Len(s)))

\* the local part
EmailLocal(l) ==
  /\ l # << >>
  /\ AllIn(l, AlphaNum \cup { "_", "'", "+", "-", "." })
  /\ l[Len(l)] \in AlphaNum \cup { "_", "+", "-" }
  /\ Head(l) # "."

\* one label of the domain
EmailLabel(l) ==
  /\ l # << >>
  /\ Head(l) \in AlphaNum
  /\ AllIn(l, AlphaNum \cup { "-" })

\* the domain: labels, then the top-level name
EmailDomain(d) ==
  LET parts == SplitDots(d)
      n     == Len(parts)
  IN  /\ n >= 2
      /\ \A i \in 1..(n - 1) : EmailLabel(parts[i])
      /\ Len(parts[n]) >= 2
      /\ AllIn(parts[n], Letter)

EmailRegex(s) ==
  LET at == IndexFrom(s, "@", 1)
  IN  /\ at > 1
      /\ IndexFrom(s, "@", at + 1) = 0
      /\ ~ \E i \in 1..(Len(s) - 1) : s[i] = "." /\ s[i + 1] = "."
      /\ EmailLocal(SubSeq(s, 1, at - 1))
      /\ EmailDomain(SubSeq(s, at + 1, Len(s)))

EmailIssues(v) ==
  LET s == Trim(v)
  IN  (IF EmailRegex(s) THEN {} ELSE { "invalid_string" })
      \cup (IF Len(s) <= EmailMax THEN {} ELSE { "too_big" })

Fields == { "amount", "name", "taxid", "nationality", "email" }

\* the resolver's errors: the fields with an issue
Errors(v) ==
  { f \in Fields :
      CASE f = "amount"      -> AmountIssues(v.amount) # {}
        [] f = "name"        -> NameIssues(v.name) # {}
        [] f = "taxid"       -> TaxidIssues(v.taxid) # {}
        [] f = "nationality" -> NationalityIssues(v.nationality) # {}
        [] f = "email"       -> EmailIssues(v.email) # {} }

\* the nationality not checked
AcceptsWithoutNationality(v) == Errors(v) \ { "nationality" } = {}

\* validation accepts the record
Accepts(v) == Errors(v) = {}

\* the parsed output handed to onSubmit: the amount coerced, the strings trimmed
Parsed(v) ==
  [ amount      |-> CoerceNumber(v.amount),
    name        |-> Trim(v.name),
    taxid       |-> Trim(v.taxid),
    nationality |-> v.nationality,
    email       |-> Trim(v.email) ]

\* the options of the nationality Select
nationalities ==
  { <<"a","m","e","r","i","c","a","n">>,
    <<"b","r","i","t","i","s","h">>,
    <<"c","a","n","a","d","i","a","n">>,
    <<"c","h","i","n","e","s","e">>,
    <<"f","r","e","n","c","h">>,
    <<"g","e","r","m","a","n">>,
    <<"i","n","d","i","a","n">>,
    <<"i","t","a","l","i","a","n">>,
    <<"j","a","p","a","n","e","s","e">>,
    <<"s","p","a","n","i","s","h">>,
    <<"o","t","h","e","r">> }

\* useForm's defaultValues
defaultValues ==
  [ amount      |-> Undefined,
    name        |-> << >>,
    taxid       |-> << >>,
    nationality |-> << >>,
    email       |-> << >> ]

(***************************************************************************)
(* What the user types and selects                                         *)
(***************************************************************************)
JohnDoe == <<"J","o","h","n"," ","D","o","e">>
TaxidTyped == <<"a","b","1","2","3","4","5","6","c">>
JohnAtX == <<"j","o","h","n","@","x",".","c","o","m">>
American == <<"a","m","e","r","i","c","a","n">>

AmountInputs == { << >>, <<"0">>, <<"1","5","0","0",".","0","0">> }
NameInputs == { << >>, JohnDoe, <<"J">> }
TaxidInputs == { << >>, TaxidTyped, <<"a","b","-","1">> }
Other == <<"o","t","h","e","r">>
SelectChoices == { American, Other }
EmailInputs == { << >>, JohnAtX, <<"j","o","h","n">> }

\* the most POSTs a behaviour issues
MaxPosts == 3

(***************************************************************************)
(* CreditApplicationForm                                                   *)
(***************************************************************************)
VARIABLES
  values,        \* the form's field values (react-hook-form)
  isSubmitting,  \* useState(false)
  isSuccess,     \* useState(false)
  inflight,      \* the bodies of the fetch calls that have not settled
  timers,        \* the pending setTimeout callbacks
  toast,         \* the last notice shown
  lastSubmit,    \* history: what the resolver said at the last submit
  posts,         \* history: the fetch calls made
  acceptedIdle   \* history: the submits validation accepted with no request in flight

vars ==
  << values, isSubmitting, isSuccess, inflight, timers, toast,
     lastSubmit, posts, acceptedIdle >>

Init ==
  /\ values = defaultValues
  /\ isSubmitting = FALSE
  /\ isSuccess = FALSE
  /\ inflight = << >>
  /\ timers = 0
  /\ toast = "none"
  /\ lastSubmit = "none"
  /\ posts = 0
  /\ acceptedIdle = 0

\* the form is rendered only while isSuccess is false
FormRendered == ~isSuccess

\* <Button type="submit" disabled={isSubmitting}>
ButtonEnabled == ~isSubmitting

\* the typed value passed on as it is
TaxidOnChangeRaw(s) == s

\* the taxid Input's onChange
TaxidOnChange(s) == ToUpperCase(s)

\* field.onChange of an Input or of the Select: the field takes the new value
ChangeField(f, v) ==
  /\ FormRendered
  /\ values' = [ values EXCEPT ![f] = v ]
  /\ UNCHANGED << isSubmitting, isSuccess, inflight, timers, toast,
                  lastSubmit, posts, acceptedIdle >>

ChangeAmount == \E s \in AmountInputs : ChangeField("amount", Text(s))
ChangeName == \E s \in NameInputs : ChangeField("name", s)
ChangeTaxid == \E s \in TaxidInputs : ChangeField("taxid", TaxidOnChange(s))
SelectNationality == \E n \in SelectChoices : ChangeField("nationality", n)
ChangeEmail == \E s \in EmailInputs : ChangeField("email", s)

\* onSubmit up to the await: the flag is set and the POST is issued
onSubmit(data) ==
  /\ isSubmitting' = TRUE
  /\ inflight' = Append(inflight, data)
  /\ posts' = posts + 1
  /\ acceptedIdle' = IF inflight = << >> THEN acceptedIdle + 1 ELSE acceptedIdle
  /\ UNCHANGED << values, isSuccess, timers, toast >>

\* form.handleSubmit(onSubmit): the resolver runs, onSubmit is called with the
\* parsed values when it reports no error
handleSubmit ==
  /\ posts < MaxPosts
  /\ IF Accepts(values)
       THEN /\ lastSubmit' = "accepted"
            /\ onSubmit(Parsed(values))
       ELSE /\ lastSubmit' = "rejected"
            /\ UNCHANGED << values, isSubmitting, isSuccess, inflight, timers,
                            toast, posts, acceptedIdle >>

\* a click on the submit button
ClickSubmit ==
  /\ FormRendered
  /\ ButtonEnabled
  /\ handleSubmit

\* a submit event that reaches the form by another route than the button
\* (form.requestSubmit(), a dispatched submit event)
SubmitEvent ==
  /\ FormRendered
  /\ handleSubmit

Outcomes == { "ok", "not_ok", "network_error" }

\* setTimeout(() => { form.reset(); setIsSuccess(false) }, 3000)
ScheduleReset == timers' = timers + 1

\* onSubmit after the await, on a response with a success status
OnSuccess ==
  /\ isSuccess' = TRUE
  /\ toast' = "success"
  /\ ScheduleReset
  /\ UNCHANGED values

\* onSubmit's catch: a response that is not ok, or fetch rejecting
OnFailure ==
  /\ toast' = "error"
  /\ UNCHANGED << values, isSuccess, timers >>

\* onSubmit's finally
Finally == isSubmitting' = FALSE

\* the request at position i settles and onSubmit resumes
Settle(i, outcome) ==
  /\ inflight' = SubSeq(inflight, 1, i - 1) \o SubSeq(inflight, i + 1, Len(inflight))
  /\ IF outcome = "ok" THEN OnSuccess ELSE OnFailure
  /\ Finally
  /\ UNCHANGED << lastSubmit, posts, acceptedIdle >>

Respond == \E i \in DOMAIN inflight : \E outcome \in Outcomes : Settle(i, outcome)

\* a reset that leaves the values
FormResetKeepsValues == UNCHANGED values

\* form.reset()
FormReset == values' = defaultValues

\* the timer's callback
TimerFire ==
  /\ timers > 0
  /\ timers' = timers - 1
  /\ FormReset
  /\ isSuccess' = FALSE
  /\ UNCHANGED << isSubmitting, inflight, toast, lastSubmit, posts, acceptedIdle >>

Next ==
  \/ ChangeAmount
  \/ ChangeName
  \/ ChangeTaxid
  \/ SelectNationality
  \/ ChangeEmail
  \/ ClickSubmit
  \/ SubmitEvent
  \/ Respond
  \/ TimerFire

Spec == Init /\ [][Next]_vars

\* setTimeout's callback runs once its delay has passed
FairSpec == Spec /\ WF_vars(TimerFire)

\* the behaviours in which every submit comes from the button
NextButton ==
  \/ ChangeAmount
  \/ ChangeName
  \/ ChangeTaxid
  \/ SelectNationality
  \/ ChangeEmail
  \/ ClickSubmit
  \/ Respond
  \/ TimerFire

SpecButton == Init /\ [][NextButton]_vars

(***************************************************************************)
(* The schema applied to candidate records: the form starts holding any    *)
(* candidate, and is submitted.                                            *)
(***************************************************************************)
AmountCandidates ==
  { Undefined } \cup
  { Text(s) : s \in
      { << >>,
        <<"a","b","c">>,
        <<"-","1">>,
        <<"0">>,
        <<"0",".","0","1">>,
        <<"1","5","0","0",".","0","0">>,
        <<"1","0","0","0","0","0","0","0">>,
        <<"1","0","0","0","0","0","0","0",".","0","0">>,
        <<"1","0","0","0","0","0","0","0",".","0","1">>,
        <<"1","0","0","0","0","0","0","1">> } }

NameCandidates ==
  { << >>,
    <<"J">>,
    JohnDoe,
    <<" ","J","o"," ">>,
    <<"O","'","N","e","i","l","-","S","m","i","t","h">>,
    <<"J","o","h","n","3">>,
    Repeat("a", NameMax),
    Repeat("a", NameMax + 1) }

TaxidCandidates ==
  { << >>,
    <<"A","B","1","2">>,
    TaxidTyped,
    ToUpperCase(TaxidTyped),
    <<"A","B","-","1","2","3","4","5">>,
    Repeat("7", TaxidMax),
    Repeat("7", TaxidMax + 1) }

NationalityCandidates ==
  { << >>, American, Other, <<"m","a","r","t","i","a","n">> }

EmailCandidates ==
  { << >>,
    JohnAtX,
    <<"j","o","h","n">>,
    <<"j","o","h","n","@","x">>,
    <<".","j","@","x",".","c","o","m">>,
    <<"j",".",".","d","@","x",".","c","o","m">>,
    Repeat("a", EmailMax - 6) \o <<"@","x",".","c","o","m">>,
    Repeat("a", EmailMax - 5) \o <<"@","x",".","c","o","m">> }

Candidates ==
  [ amount      : AmountCandidates,
    name        : NameCandidates,
    taxid       : TaxidCandidates,
    nationality : NationalityCandidates,
    email       : EmailCandidates ]

InitValidate ==
  /\ values \in Candidates
  /\ isSubmitting = FALSE
  /\ isSuccess = FALSE
  /\ inflight = << >>
  /\ timers = 0
  /\ toast = "none"
  /\ lastSubmit = "none"
  /\ posts = 0
  /\ acceptedIdle = 0

NextValidate ==
  \/ ClickSubmit
  \/ SubmitEvent
  \/ Respond
  \/ TimerFire

SpecValidate == InitValidate /\ [][NextValidate]_vars


(***************************************************************************)
(* Steps, as the variables show them                                       *)
(***************************************************************************)
\* a request settles with a success status
SuccessStep == Len(inflight') < Len(inflight) /\ timers' = timers + 1

\* a request settles with a status that is not ok, or with a network error
FailureStep == Len(inflight') < Len(inflight) /\ timers' = timers

\* the timer's callback runs
TimerStep == timers' = timers - 1

\* the submit handler runs, from the button or not
SubmitStep == ClickSubmit \/ SubmitEvent

Idle == ~isSubmitting /\ ~isSuccess

(***************************************************************************)
(* C1: at most one request is outstanding, and a submit that reaches the   *)
(* handler while isSubmitting is true issues no POST and leaves the form   *)
(* values, isSubmitting and isSuccess as they were.                        *)
(***************************************************************************)
C1_InFlightSubmitIsNoOp ==
  [][ /\ Len(inflight') <= 1
      /\ (isSubmitting /\ SubmitStep) =>
            UNCHANGED << posts, inflight, values, isSubmitting, isSuccess >> ]_vars

(***************************************************************************)
(* C2: a submit of a record with an invalid field issues no POST and       *)
(* leaves isSubmitting, the requests in flight and the form values as they *)
(* were.                                                                   *)
(***************************************************************************)
C2_RejectedSubmitChangesNothing ==
  [][ (SubmitStep /\ Errors(values) # {}) =>
        /\ UNCHANGED << posts, inflight, values, isSubmitting, isSuccess, timers >>
        /\ lastSubmit' = "rejected" ]_vars

\* a submit was rejected for the nationality alone, and nothing was sent
C2_Witness ==
  /\ lastSubmit = "rejected"
  /\ Errors(values) = { "nationality" }
  /\ Idle
  /\ posts = 0
  /\ inflight = << >>

C4_FailureKeepsFormForRetry ==
  [][ FailureStep =>
        /\ values' = values
        /\ ~isSuccess'
        /\ ~isSubmitting'
        /\ timers' = 0
        /\ FormRendered'
        /\ ButtonEnabled' ]_vars

(***************************************************************************)
(* C5: the POSTs issued are as many as the submits that validation         *)
(* accepted while no request was in flight.                                *)
(***************************************************************************)
C5_OnePostPerIdleSubmit == posts = acceptedIdle

(***************************************************************************)
(* C6: the taxid the form holds, which is what the schema validates, and   *)
(* the taxid of every POST body hold no lowercase letter.                  *)
(***************************************************************************)
C6_TaxidUppercase ==
  /\ ~HasLowercase(values.taxid)
  /\ \A i \in DOMAIN inflight : ~HasLowercase(inflight[i].taxid)

\* the record typed with taxid ab123456c is sent as AB123456C
C6_Witness ==
  /\ inflight # << >>
  /\ inflight[1].taxid = <<"A","B","1","2","3","4","5","6","C">>
  /\ values.taxid = inflight[1].taxid

(***************************************************************************)
(* C7: an amount that is not a number, is <= 0 or is > 10,000,000 makes    *)
(* validation reject the record; an amount a with 0 < a <= 10,000,000 has  *)
(* no amount error, 10,000,000 itself included; an undefined, empty or     *)
(* non-numeric amount is rejected.                                         *)
(***************************************************************************)
TenMillion == <<"1","0","0","0","0","0","0","0">>

C7_AmountRange ==
  LET a == values.amount
      n == CoerceNumber(a)
      inRange == ~n.nan /\ n.num > 0 /\ n.num <= 10000000 * Pow10(n.scale)
  IN  /\ ~inRange => ~Accepts(values)
      /\ inRange => "amount" \notin Errors(values)
      /\ a = Text(TenMillion) => "amount" \notin Errors(values)
      /\ a \in { Undefined, Text(<< >>), Text(<<"a","b","c">>) } => ~Accepts(values)

\* a record with the amount 10000000 was accepted and sent
C7_Witness ==
  /\ values.amount = Text(TenMillion)
  /\ lastSubmit = "accepted"
  /\ posts = 1
  /\ inflight # << >>
  /\ inflight[1].amount = [ nan |-> FALSE, num |-> 10000000, scale |-> 0 ]

(***************************************************************************)
(* C8: the nationality of every POSTed record is one of the enumerated     *)
(* set, and validation rejects a record whose nationality is empty or      *)
(* outside the set.                                                        *)
(***************************************************************************)
C8_NationalityEnumerated ==
  [][ /\ (SubmitStep /\ values.nationality \notin nationalities) =>
            (lastSubmit' = "rejected" /\ posts' = posts)
      /\ \A i \in DOMAIN inflight' : inflight'[i].nationality \in nationalities ]_vars

(***************************************************************************)
(* C9: a request that settles leaves isSubmitting false, and isSubmitting  *)
(* is true for as long as a request has not settled.                       *)
(***************************************************************************)
C9_FlagFollowsRequest ==
  [][ /\ Len(inflight') < Len(inflight) => ~isSubmitting'
      /\ inflight' # << >> => isSubmitting' ]_vars

(***************************************************************************)
(* C10: at most one reset timer is pending; while one is pending the       *)
(* controller is in Success, no POST is issued and no field changes until  *)
(* the timer's callback runs.                                              *)
(***************************************************************************)
C10_SuccessBlocksForm ==
  [][ /\ timers' <= 1
      /\ timers > 0 => isSuccess
      /\ (timers > 0 /\ ~TimerStep) => UNCHANGED << posts, values >> ]_vars

=============================================================================
